---- MODULE Spec2Model ----
(***************************************************************************)
(* A model of src/src/main.rs: the terminal Christmas card.  Two layers    *)
(* (ChristmasTreeFrame in front of SnowFrame) implement the trait Frame    *)
(* and are composited cell by cell by Printer::print, which skips ahead    *)
(* by the display width of every glyph it emits.                           *)
(*                                                                         *)
(* Conventions.                                                            *)
(*  - A String is a sequence of code points; a char is ASCII iff its code  *)
(*    point is below 128.                                                  *)
(*  - Rust vectors are 0-indexed, TLA+ sequences 1-indexed: v[i] in the    *)
(*    source is v[i + 1] here.                                             *)
(*  - usize is modelled at UsizeBits bits (TLC's integers are 32 bits      *)
(*    wide); an overflowing subtraction panics when overflow_checks is     *)
(*    TRUE (a debug build) and wraps when it is FALSE (a release build).   *)
(*  - thread_rng() is modelled as a cyclic stream of raw values chosen at  *)
(*    start-up (the seed) and a position in it; gen_range(0..=n) reduces   *)
(*    the next raw value modulo n + 1.                                     *)
(***************************************************************************)
EXTENDS Integers, Sequences, FiniteSets

VARIABLES
    frames,           \* Printer.frames (or the frame a harness drives)
    screen_width,     \* Printer.screen_width
    screen_height,    \* Printer.screen_height
    term,             \* what term_size::dimensions() answers: <<w, h>> or NoSize
    pc,               \* position of main's loop
    out,              \* the block of text of the last print!, a sequence of rows
    queries,          \* the get_content calls of the last Printer::print
    panic,            \* the panic that aborted the process, or NoPanic
    thread_rng,       \* the thread-local generator behind every ThreadRng handle
    overflow_checks,  \* TRUE: debug build, FALSE: release build
    input,            \* the argument of the function under test
    ret               \* what the last call under test returned

vars == <<frames, screen_width, screen_height, term, pc, out, queries, panic,
          thread_rng, overflow_checks, input, ret>>

-----------------------------------------------------------------------------
(* Bounds of the model *)

UsizeBits == 16
RngPeriod == 2
MaxSnowW == 3
MaxSnowH == 3
MaxGridW == 3
MaxStrLen == 3

UsizeMod == 2 ^ UsizeBits

-----------------------------------------------------------------------------
(* Panics *)

NoPanic == "none"
SubOverflow == "attempt to subtract with overflow"
RemByZero == "attempt to calculate the remainder with a divisor of zero"
IndexOutOfBounds == "index out of bounds"
UnwrapNone == "called Option::unwrap() on a None value"

-----------------------------------------------------------------------------
(* Strings and their display width *)

IsAscii(c) == c < 128

RECURSIVE StringWidth(_)
StringWidth(s) ==
    IF s = <<>> THEN 0
    ELSE (IF IsAscii(Head(s)) THEN 1 ELSE 2) + StringWidth(Tail(s))

-----------------------------------------------------------------------------
(* enum Content *)

Transparent == [kind |-> "Transparent"]
Compensate == [kind |-> "Compensate"]
ColoredString(s, color) == [kind |-> "ColoredString", s |-> s, color |-> color]

BROWN == "TrueColor(139,69,19)"

\* (mutant) every glyph taken to be one column wide
ContentWidthOne(content) == 1

ContentWidth(content) == StringWidth(content.s)

-----------------------------------------------------------------------------
(* fn string_to_content_vec *)

\* (mutant) the test of line 285 without its negation
PushesCompensateOnAscii(c) == IsAscii(c)

PushesCompensate(c) == ~IsAscii(c)

RECURSIVE string_to_content_vec(_, _)
string_to_content_vec(s, color) ==
    IF s = <<>> THEN <<>>
    ELSE LET c == Head(s)
             pushed == IF PushesCompensate(c)
                       THEN <<ColoredString(<<c>>, color), Compensate>>
                       ELSE <<ColoredString(<<c>>, color)>>
         IN pushed \o string_to_content_vec(Tail(s), color)

-----------------------------------------------------------------------------
(* usize arithmetic *)

\* a - b overflows
SubOverflows(a, b) == a < b

\* a - b in a release build
WrappingSub(a, b) == (a - b + UsizeMod) % UsizeMod

-----------------------------------------------------------------------------
(* rand: the thread-local generator *)

\* The raw values of the stream: 0 makes every draw 0 (a snowflake, an ornament,
\* Red), 1 none of them
RngValues == {0, 1}

Seeds == [1 .. RngPeriod -> RngValues]

\* gen_range(0..=n): the value drawn and the generator after the draw
gen_range(rng, n) ==
    [value |-> rng.stream[rng.pos + 1] % (n + 1),
     rng   |-> [rng EXCEPT !.pos = (rng.pos + 1) % Len(rng.stream)]]

-----------------------------------------------------------------------------
(* struct SnowFrame *)

SnowFrameDefault ==
    [kind |-> "SnowFrame", frame_width |-> 0, frame_height |-> 0,
     cursor |-> 0, snows_row |-> <<>>]

\* for i in 0..self.frame_width { if gen_range(0..=20) == 0 { snows.insert(i) } }
RECURSIVE SnowFill(_, _, _, _), SnowFillDraw(_, _, _, _)
SnowFill(i, width, rng, snows) ==
    IF i >= width THEN [snows |-> snows, rng |-> rng]
    ELSE SnowFillDraw(i, width, snows, gen_range(rng, 20))

\* (mutant) snows.insert(i + 1)
SnowFillDrawShifted(i, width, snows, d) ==
    SnowFill(i + 1, width, d.rng,
             IF d.value = 0 THEN snows \cup {i + 1} ELSE snows)

\* one turn of the loop, d the draw of gen_range(0..=20)
SnowFillDraw(i, width, snows, d) ==
    SnowFill(i + 1, width, d.rng, IF d.value = 0 THEN snows \cup {i} ELSE snows)

\* (mutant) the cursor rotated forward
SnowRotateForward(cursor, screen_height_) == (cursor + 1) % screen_height_

\* the cursor after an update that keeps the dimensions
SnowRotate(cursor, screen_height_) ==
    (cursor + screen_height_ - 1) % screen_height_

\* the panic of (self.cursor + screen_height - 1) % screen_height, if any
SnowRotatePanic(self, screen_height_, checks) ==
    IF SubOverflows(self.cursor + screen_height_, 1) /\ checks THEN SubOverflow
    ELSE IF screen_height_ = 0 THEN RemByZero
    ELSE NoPanic

\* (mutant) a resize that keeps the rows it has room for
SnowResetKeepsRows(self, screen_width_, screen_height_) ==
    [self EXCEPT !.frame_width = screen_width_,
                 !.frame_height = screen_height_,
                 !.cursor = 0,
                 !.snows_row = [i \in 1 .. screen_height_ |->
                                  IF i <= Len(self.snows_row)
                                  THEN self.snows_row[i] ELSE {}]]

\* the fields after an update that changes the dimensions
SnowReset(self, screen_width_, screen_height_) ==
    [self EXCEPT !.frame_width = screen_width_,
                 !.frame_height = screen_height_,
                 !.cursor = 0,
                 !.snows_row = [i \in 1 .. screen_height_ |-> {}]]

\* (mutant) the loop's inserts without snows.clear()
SnowRefillNoClear(self, f) ==
    [self  |-> [self EXCEPT !.snows_row[self.cursor + 1] =
                                self.snows_row[self.cursor + 1] \cup f.snows],
     rng   |-> f.rng,
     panic |-> NoPanic]

\* snows.clear() and the loop's inserts, f the outcome of the loop
SnowRefill(self, f) ==
    [self  |-> [self EXCEPT !.snows_row[self.cursor + 1] = f.snows],
     rng   |-> f.rng,
     panic |-> NoPanic]

\* let snows = &mut self.snows_row[self.cursor]; and what follows it
SnowNewRow(self, rng) ==
    IF self.cursor >= Len(self.snows_row)
    THEN [self |-> self, rng |-> rng, panic |-> IndexOutOfBounds]
    ELSE SnowRefill(self, SnowFill(0, self.frame_width, rng, {}))

\* SnowFrame::update: the frame and the generator after the call, and the
\* panic that ended it (the assignments made before a panic are kept)
SnowUpdate(self, screen_width_, screen_height_, rng, checks) ==
    IF self.frame_width = screen_width_ /\ self.frame_height = screen_height_
       /\ SnowRotatePanic(self, screen_height_, checks) /= NoPanic
    THEN [self |-> self, rng |-> rng,
          panic |-> SnowRotatePanic(self, screen_height_, checks)]
    ELSE SnowNewRow(
            IF self.frame_width /= screen_width_
               \/ self.frame_height /= screen_height_
            THEN SnowReset(self, screen_width_, screen_height_)
            ELSE [self EXCEPT !.cursor = SnowRotate(self.cursor, screen_height_)],
            rng)

\* the stored row a logical row y is read from
SnowRowIndex(self, y) == (self.cursor + y) % self.frame_height

\* (mutant) get_content moves the cursor on
SnowAfterGetContentMovesCursor(self, x, y) ==
    [self EXCEPT !.cursor = (self.cursor + 1) % self.frame_height]

\* the frame after SnowFrame::get_content(&mut self, ..)
SnowAfterGetContent(self, x, y) == self

\* SnowFrame::get_content
SnowGetContent(self, x, y, rng, checks) ==
    IF self.frame_height = 0
    THEN [content |-> Transparent, self |-> self, rng |-> rng, panic |-> RemByZero]
    ELSE IF SnowRowIndex(self, y) >= Len(self.snows_row)
    THEN [content |-> Transparent, self |-> self, rng |-> rng,
          panic |-> IndexOutOfBounds]
    ELSE [content |-> IF x \in self.snows_row[SnowRowIndex(self, y) + 1]
                      THEN ColoredString(<<111>>, "White")
                      ELSE Transparent,
          self    |-> SnowAfterGetContent(self, x, y),
          rng     |-> rng,
          panic   |-> NoPanic]

-----------------------------------------------------------------------------
(* struct ChristmasTreeFrame *)

HEIGHT == 14
LEAF_HEIGHT == 10
TRUNK_HEIGHT == 2
BLANK_HEIGHT == 1
BLESSING_HEIGHT == 1

\* "mWm"
Trunk == <<109, 87, 109>>

\* "2024 " and the four CJK characters U+8056 U+8A95 U+5FEB U+6A02
Blessing == <<50, 48, 50, 52, 32, 32854, 35477, 24555, 27138>>

ChristmasTreeFrameDefault ==
    [kind |-> "ChristmasTreeFrame", frame_width |-> 0, frame_height |-> 0]

\* the arms of the match in get_leaf_color
LeafColor(value) ==
    CASE value = 0 -> "Red"
      [] value = 1 -> "Green"
      [] value = 2 -> "Yellow"
      [] value = 3 -> "Blue"
      [] value = 4 -> "Magenta"
      [] value = 5 -> "Cyan"
      [] OTHER -> "White"

\* "o".color(..), c the outcome of get_leaf_color
Ornament(c) == [s |-> ColoredString(<<111>>, c.color), rng |-> c.rng]

\* the colour of d, a draw of gen_range(0..=5)
LeafColorOf(d) == [color |-> LeafColor(d.value), rng |-> d.rng]

\* ChristmasTreeFrame::get_leaf_color
get_leaf_color(rng) == LeafColorOf(gen_range(rng, 5))

\* (mutant) the ornament drawn as U+25CF, a character that is not ASCII
LeafOfWideOrnament(d) ==
    IF d.value = 0
    THEN [s |-> ColoredString(<<9679>>, LeafColor(d.value)), rng |-> d.rng]
    ELSE [s |-> ColoredString(<<42>>, "Green"), rng |-> d.rng]

\* the arms of the match in get_leaf, d the draw of gen_range(0..=10)
LeafOf(d) ==
    IF d.value = 0 THEN Ornament(get_leaf_color(d.rng))
    ELSE [s |-> ColoredString(<<42>>, "Green"), rng |-> d.rng]

\* ChristmasTreeFrame::get_leaf
get_leaf(rng) == LeafOf(gen_range(rng, 10))

\* (mutant) an update that stores the width alone
TreeUpdateKeepsHeight(self, screen_width_, screen_height_) ==
    IF self.frame_width /= screen_width_ \/ self.frame_height /= screen_height_
    THEN [self EXCEPT !.frame_width = screen_width_]
    ELSE self

\* ChristmasTreeFrame::update
TreeUpdate(self, screen_width_, screen_height_) ==
    IF self.frame_width /= screen_width_ \/ self.frame_height /= screen_height_
    THEN [self EXCEPT !.frame_width = screen_width_,
                      !.frame_height = screen_height_]
    ELSE self

\* (mutant) a band of fixed text that ends one column past the right edge:
\* frame_width - text_width + 1 columns of offset
TreeTextFlushRight(self, x, content_vec, text_width, rng, checks) ==
    IF SubOverflows(self.frame_width, text_width) /\ checks
    THEN [content |-> Transparent, self |-> self, rng |-> rng, panic |-> SubOverflow]
    ELSE IF x < WrappingSub(self.frame_width, text_width) + 1
            \/ x - (WrappingSub(self.frame_width, text_width) + 1)
                  >= Len(content_vec)
    THEN [content |-> Transparent, self |-> self, rng |-> rng, panic |-> NoPanic]
    ELSE [content |-> content_vec[x - (WrappingSub(self.frame_width, text_width)
                                          + 1) + 1],
          self |-> self, rng |-> rng, panic |-> NoPanic]

\* One band of fixed text: (frame_width - text_width) / 2 columns of offset,
\* then content_vec[x - offset]
TreeText(self, x, content_vec, text_width, rng, checks) ==
    IF SubOverflows(self.frame_width, text_width) /\ checks
    THEN [content |-> Transparent, self |-> self, rng |-> rng, panic |-> SubOverflow]
    ELSE IF x < WrappingSub(self.frame_width, text_width) \div 2
            \/ x >= WrappingSub(self.frame_width, text_width) \div 2 + text_width
    THEN [content |-> Transparent, self |-> self, rng |-> rng, panic |-> NoPanic]
    ELSE IF x - WrappingSub(self.frame_width, text_width) \div 2 >= Len(content_vec)
    THEN [content |-> Transparent, self |-> self, rng |-> rng,
          panic |-> IndexOutOfBounds]
    ELSE [content |-> content_vec[x - WrappingSub(self.frame_width, text_width)
                                          \div 2 + 1],
          self |-> self, rng |-> rng, panic |-> NoPanic]

\* return Content::ColoredString { s: self.get_leaf() }, l the outcome of get_leaf
TreeLeafGlyph(self, l) ==
    [content |-> l.s, self |-> self, rng |-> l.rng, panic |-> NoPanic]

\* The leaf band, row d of it: leaf_width = 2 * d + 1 columns, centred
TreeLeaf(self, x, d, rng, checks) ==
    IF SubOverflows(self.frame_width, 2 * d + 1) /\ checks
    THEN [content |-> Transparent, self |-> self, rng |-> rng, panic |-> SubOverflow]
    ELSE IF x < WrappingSub(self.frame_width, 2 * d + 1) \div 2
            \/ x >= WrappingSub(self.frame_width, 2 * d + 1) \div 2 + (2 * d + 1)
    THEN [content |-> Transparent, self |-> self, rng |-> rng, panic |-> NoPanic]
    ELSE TreeLeafGlyph(self, get_leaf(rng))

\* (self.frame_height - HEIGHT) / 2 in a build that does not panic on it
TreeYOffset(self) == WrappingSub(self.frame_height, HEIGHT) \div 2

\* ChristmasTreeFrame::get_content from "leaf part" on, d = y - y_offset
TreeBand(self, x, d, rng, checks) ==
    IF d < LEAF_HEIGHT THEN TreeLeaf(self, x, d, rng, checks)
    ELSE IF d - LEAF_HEIGHT < TRUNK_HEIGHT
    THEN TreeText(self, x, string_to_content_vec(Trunk, BROWN), 3, rng, checks)
    ELSE IF d - LEAF_HEIGHT - TRUNK_HEIGHT < BLANK_HEIGHT
    THEN [content |-> Transparent, self |-> self, rng |-> rng, panic |-> NoPanic]
    ELSE IF d - LEAF_HEIGHT - TRUNK_HEIGHT - BLANK_HEIGHT < BLESSING_HEIGHT
    THEN TreeText(self, x, string_to_content_vec(Blessing, "Red"),
                  StringWidth(Blessing), rng, checks)
    ELSE [content |-> Transparent, self |-> self, rng |-> rng, panic |-> NoPanic]

\* ChristmasTreeFrame::get_content
TreeGetContent(self, x, y, rng, checks) ==
    IF SubOverflows(self.frame_height, HEIGHT) /\ checks
    THEN [content |-> Transparent, self |-> self, rng |-> rng, panic |-> SubOverflow]
    ELSE IF y < TreeYOffset(self) \/ y >= TreeYOffset(self) + HEIGHT
    THEN [content |-> Transparent, self |-> self, rng |-> rng, panic |-> NoPanic]
    ELSE TreeBand(self, x, y - TreeYOffset(self), rng, checks)

-----------------------------------------------------------------------------
(* A frame that draws one fixed line of content on the top row: a stand-in *)
(* for any other implementor of the trait Frame handed to Printer::new     *)

GridFrame(line) == [kind |-> "GridFrame", line |-> line]

GridGetContent(self, x, y, rng) ==
    [content |-> IF y = 0 /\ x < Len(self.line) THEN self.line[x + 1]
                 ELSE Transparent,
     self    |-> self,
     rng     |-> rng,
     panic   |-> NoPanic]

-----------------------------------------------------------------------------
(* trait Frame: dynamic dispatch over Box<dyn Frame> *)

FrameUpdate(frame, screen_width_, screen_height_, rng, checks) ==
    CASE frame.kind = "SnowFrame" ->
            SnowUpdate(frame, screen_width_, screen_height_, rng, checks)
      [] frame.kind = "ChristmasTreeFrame" ->
            [self  |-> TreeUpdate(frame, screen_width_, screen_height_),
             rng   |-> rng,
             panic |-> NoPanic]
      [] OTHER -> [self |-> frame, rng |-> rng, panic |-> NoPanic]

FrameGetContent(frame, x, y, rng, checks) ==
    CASE frame.kind = "SnowFrame" -> SnowGetContent(frame, x, y, rng, checks)
      [] frame.kind = "ChristmasTreeFrame" -> TreeGetContent(frame, x, y, rng, checks)
      [] OTHER -> GridGetContent(frame, x, y, rng)

-----------------------------------------------------------------------------
(* struct Printer *)

\* Option<(usize, usize)>: None
NoSize == <<>>

\* Option<Content>: None
None == [kind |-> "None"]

\* What print! writes is a sequence of rows, a row a sequence of pieces: the
\* text of a glyph with its colour, or the plain space pushed for a blank
Space == [s |-> <<32>>, color |-> "plain"]
Piece(content) == [s |-> content.s, color |-> content.color]

\* for frame in self.frames.iter_mut() { frame.update(..) }, from frame i on
RECURSIVE UpdateFrames(_, _, _, _, _, _), UpdateFrame(_, _, _, _, _, _)
UpdateFrames(fs, i, screen_width_, screen_height_, rng, checks) ==
    IF i > Len(fs) THEN [frames |-> fs, rng |-> rng, panic |-> NoPanic]
    ELSE UpdateFrame(fs, i, screen_width_, screen_height_, checks,
                     FrameUpdate(fs[i], screen_width_, screen_height_, rng, checks))

\* one turn of the loop, u the outcome of frame.update(..)
UpdateFrame(fs, i, screen_width_, screen_height_, checks, u) ==
    IF u.panic /= NoPanic
    THEN [frames |-> [fs EXCEPT ![i] = u.self], rng |-> u.rng, panic |-> u.panic]
    ELSE UpdateFrames([fs EXCEPT ![i] = u.self], i + 1, screen_width_,
                      screen_height_, u.rng, checks)

\* (mutant) a find that passes over Transparent alone
IsOpaqueCompensateToo(content) == content.kind /= "Transparent"

\* the predicate of find: Transparent and Compensate are passed over
IsOpaque(content) == content.kind \notin {"Transparent", "Compensate"}

\* frames.iter_mut().map(|frame| frame.get_content(x, y)).find(..), from frame
\* i on: the iterator is lazy, so the frames behind the first hit are not asked
RECURSIVE FindContent(_, _, _, _, _, _), FindInFrame(_, _, _, _, _, _)
FindContent(fs, i, x, y, rng, checks) ==
    IF i > Len(fs)
    THEN [content |-> None, frames |-> fs, rng |-> rng, panic |-> NoPanic,
          asked |-> Len(fs)]
    ELSE FindInFrame(fs, i, x, y, checks,
                     FrameGetContent(fs[i], x, y, rng, checks))

\* one frame of the iterator, g the outcome of frame.get_content(x, y)
FindInFrame(fs, i, x, y, checks, g) ==
    IF g.panic /= NoPanic
    THEN [content |-> None, frames |-> [fs EXCEPT ![i] = g.self], rng |-> g.rng,
          panic |-> g.panic, asked |-> i]
    ELSE IF IsOpaque(g.content)
    THEN [content |-> g.content, frames |-> [fs EXCEPT ![i] = g.self],
          rng |-> g.rng, panic |-> NoPanic, asked |-> i]
    ELSE FindContent([fs EXCEPT ![i] = g.self], i + 1, x, y, g.rng, checks)

\* (mutant) x += s.width(); x += 1
ScanAdvanceNoMinusOne(x, content) == x + ContentWidth(content) + 1

\* x += s.width() - 1; x += 1 (every glyph of every frame here is at least one
\* column wide, so the subtraction does not overflow)
ScanAdvance(x, content) == x + (ContentWidth(content) - 1) + 1

\* (mutant) two spaces pushed for a blank
PushedTwoSpaces(content) ==
    IF content.kind = "ColoredString" THEN Piece(content)
    ELSE [s |-> <<32, 32>>, color |-> "plain"]

\* the arms of match content: what is pushed on the row
Pushed(content) ==
    IF content.kind = "ColoredString" THEN Piece(content) ELSE Space

\* (mutant) x += 1 alone, whatever was emitted
NextColumnByOne(x, content) == x + 1

\* the arms of match content and x += 1: the next column of the scan
NextColumn(x, content) ==
    IF content.kind = "ColoredString" THEN ScanAdvance(x, content) ELSE x + 1

\* The while loop of one row, from column x on.  st carries the frames, the
\* generator, the row built so far and the columns scanned so far.
RECURSIVE PrintRow(_, _, _, _, _), PrintCell(_, _, _, _, _, _)
PrintRow(st, x, y, width, checks) ==
    IF x >= width THEN st
    ELSE PrintCell(st, x, y, width, checks,
                   FindContent(st.frames, 1, x, y, st.rng, checks))

\* one turn of the loop, f the outcome of the find
PrintCell(st, x, y, width, checks, f) ==
    IF f.panic /= NoPanic
    THEN [st EXCEPT !.frames = f.frames, !.rng = f.rng, !.panic = f.panic,
                    !.scan = Append(st.scan, [x |-> x, asked |-> f.asked])]
    ELSE PrintRow([st EXCEPT !.frames = f.frames, !.rng = f.rng,
                             !.scan = Append(st.scan, [x |-> x, asked |-> f.asked]),
                             !.row = Append(st.row, Pushed(f.content))],
                  NextColumn(x, f.content), y, width, checks)

\* (0..self.screen_height).map(|y| ..).collect(), from row y on
RECURSIVE PrintRows(_, _, _, _, _), PrintRowsNext(_, _, _, _, _, _)
PrintRows(acc, y, width, height, checks) ==
    IF y >= height THEN acc
    ELSE PrintRowsNext(acc, y, width, height, checks,
                       PrintRow([frames |-> acc.frames, rng |-> acc.rng,
                                 row |-> <<>>, scan |-> <<>>, panic |-> NoPanic],
                                0, y, width, checks))

\* one row of the map, r the outcome of its while loop
PrintRowsNext(acc, y, width, height, checks, r) ==
    IF r.panic /= NoPanic
    THEN [frames |-> r.frames, rng |-> r.rng, rows |-> Append(acc.rows, r.row),
          scans |-> Append(acc.scans, r.scan), panic |-> r.panic]
    ELSE PrintRows([frames |-> r.frames, rng |-> r.rng,
                    rows |-> Append(acc.rows, r.row),
                    scans |-> Append(acc.scans, r.scan), panic |-> NoPanic],
                   y + 1, width, height, checks)

\* (mutant) while x <= self.screen_width
PrintResultPastLastColumn(fs, width, height, rng, checks) ==
    PrintRows([frames |-> fs, rng |-> rng, rows |-> <<>>, scans |-> <<>>,
               panic |-> NoPanic],
              0, width + 1, height, checks)

\* Printer::print: the rows it builds, the get_content calls it makes, and the
\* frames and the generator it leaves
PrintResult(fs, width, height, rng, checks) ==
    PrintRows([frames |-> fs, rng |-> rng, rows |-> <<>>, scans |-> <<>>,
               panic |-> NoPanic],
              0, width, height, checks)

-----------------------------------------------------------------------------
(* fn main: the loop, one action per call *)

\* the assignments of Printer::update, u the outcome of the loop over the frames
UpdateEffect(u) ==
    /\ screen_width' = term[1]
    /\ screen_height' = term[2]
    /\ frames' = u.frames
    /\ thread_rng' = u.rng
    /\ panic' = u.panic
    /\ pc' = IF u.panic = NoPanic THEN "clear" ELSE pc

\* (mutant) an update that goes on with the size it has when none is answered
PrinterUpdateKeepsLastSize ==
    /\ pc = "update"
    /\ panic = NoPanic
    /\ IF term = NoSize
       THEN /\ pc' = "clear"
            /\ UNCHANGED <<frames, screen_width, screen_height, thread_rng, panic>>
       ELSE UpdateEffect(UpdateFrames(frames, 1, term[1], term[2], thread_rng,
                                      overflow_checks))
    /\ UNCHANGED <<term, out, queries, overflow_checks, input, ret>>

\* printer.update()
PrinterUpdate ==
    /\ pc = "update"
    /\ panic = NoPanic
    /\ IF term = NoSize
       THEN /\ panic' = UnwrapNone
            /\ UNCHANGED <<frames, screen_width, screen_height, thread_rng, pc>>
       ELSE UpdateEffect(UpdateFrames(frames, 1, term[1], term[2], thread_rng,
                                      overflow_checks))
    /\ UNCHANGED <<term, out, queries, overflow_checks, input, ret>>

\* printer.clear(): the clear command empties the terminal
PrinterClear ==
    /\ pc = "clear"
    /\ panic = NoPanic
    /\ out' = <<>>
    /\ pc' = "print"
    /\ UNCHANGED <<frames, screen_width, screen_height, term, queries, panic,
                   thread_rng, overflow_checks, input, ret>>

\* what Printer::print leaves, p its outcome: print! writes the rows once all
\* of them are built
PrintEffect(p) ==
    /\ frames' = p.frames
    /\ thread_rng' = p.rng
    /\ queries' = p.scans
    /\ panic' = p.panic
    /\ out' = IF p.panic = NoPanic THEN p.rows ELSE out
    /\ pc' = IF p.panic = NoPanic THEN "sleep" ELSE pc

\* printer.print()
PrinterPrint ==
    /\ pc = "print"
    /\ panic = NoPanic
    /\ PrintEffect(PrintResult(frames, screen_width, screen_height, thread_rng,
                               overflow_checks))
    /\ UNCHANGED <<screen_width, screen_height, term, overflow_checks, input, ret>>

\* (mutant) a loop that goes from the sleep to print, past update and clear
SleepThenPrint ==
    /\ pc = "sleep"
    /\ panic = NoPanic
    /\ pc' = "print"
    /\ UNCHANGED <<frames, screen_width, screen_height, term, out, queries,
                   panic, thread_rng, overflow_checks, input, ret>>

\* thread::sleep(..)
Sleep ==
    /\ pc = "sleep"
    /\ panic = NoPanic
    /\ pc' = "update"
    /\ UNCHANGED <<frames, screen_width, screen_height, term, out, queries,
                   panic, thread_rng, overflow_checks, input, ret>>

\* The sizes the terminal window takes
TermSizes == {<<19, 14>>, <<20, 15>>, <<2, 2>>}

\* The user resizes the window, or the size becomes unavailable, while the loop
\* sleeps (the size is read by Printer::update alone)
TermResize ==
    /\ pc = "sleep"
    /\ panic = NoPanic
    /\ term' \in (TermSizes \cup {NoSize}) \ {term}
    /\ UNCHANGED <<frames, screen_width, screen_height, pc, out, queries, panic,
                   thread_rng, overflow_checks, input, ret>>

\* main: Printer::new(vec![christmas_tree_frame, snow_frame])
Init ==
    /\ frames = <<ChristmasTreeFrameDefault, SnowFrameDefault>>
    /\ screen_width = 0
    /\ screen_height = 0
    /\ term \in TermSizes
    /\ pc = "update"
    /\ out = <<>>
    /\ queries = <<>>
    /\ panic = NoPanic
    /\ thread_rng \in [stream : Seeds, pos : {0}]
    /\ overflow_checks \in BOOLEAN
    /\ input = <<>>
    /\ ret = None

Next ==
    \/ PrinterUpdate
    \/ PrinterClear
    \/ PrinterPrint
    \/ Sleep
    \/ TermResize

Spec == Init /\ [][Next]_vars

-----------------------------------------------------------------------------
(* string_to_content_vec on its own: Init draws the string and the colour, *)
(* the one action applies the function                                     *)

\* 'm', DEL (the last ASCII code point), U+0080 (the first one that is not
\* ASCII) and U+8056
VecChars == {109, 127, 128, 32854}

VecStrings == UNION {[1 .. n -> VecChars] : n \in 0 .. MaxStrLen}

InitVec ==
    /\ frames = <<>>
    /\ screen_width = 0
    /\ screen_height = 0
    /\ term = NoSize
    /\ pc = "test"
    /\ out = <<>>
    /\ queries = <<>>
    /\ panic = NoPanic
    /\ thread_rng = [stream |-> <<0>>, pos |-> 0]
    /\ overflow_checks = FALSE
    /\ input \in [s : VecStrings, color : {"Red", BROWN}]
    /\ ret = None

CallStringToContentVec ==
    /\ pc = "test"
    /\ ret = None
    /\ DOMAIN input = {"s", "color"}
    /\ ret' = [kind |-> "Vec", vec |-> string_to_content_vec(input.s, input.color)]
    /\ UNCHANGED <<frames, screen_width, screen_height, term, pc, out, queries,
                   panic, thread_rng, overflow_checks, input>>

NextVec == CallStringToContentVec

SpecVec == InitVec /\ [][NextVec]_vars

-----------------------------------------------------------------------------
(* One frame on its own, driven through the trait Frame as a test would:   *)
(* update with any size, then get_content at any cell of that size         *)

TreeWidths == {0, 12, 18, 19, 20}
TreeHeights == {0, 13, 14, 15}

\* The sizes update is called with
HarnessSizes(frame) ==
    IF frame.kind = "SnowFrame" THEN (0 .. MaxSnowW) \X (0 .. MaxSnowH)
    ELSE TreeWidths \X TreeHeights

InitFrames ==
    /\ frames \in {<<SnowFrameDefault>>, <<ChristmasTreeFrameDefault>>}
    /\ screen_width = 0
    /\ screen_height = 0
    /\ term = NoSize
    /\ pc = "test"
    /\ out = <<>>
    /\ queries = <<>>
    /\ panic = NoPanic
    /\ thread_rng \in [stream : Seeds, pos : {0}]
    /\ overflow_checks \in BOOLEAN
    /\ input = <<>>
    /\ ret = None

\* what frame.update(d[1], d[2]) leaves, u its outcome; the harness keeps the
\* frame as it was before the call
CallUpdateEffect(d, u) ==
    /\ frames' = <<u.self>>
    /\ thread_rng' = u.rng
    /\ panic' = u.panic
    /\ input' = d
    /\ ret' = [kind |-> "update", before |-> frames[1]]

\* frame.update(screen_width, screen_height)
CallUpdate ==
    /\ pc = "test"
    /\ Len(frames) = 1
    /\ panic = NoPanic
    /\ \E d \in HarnessSizes(frames[1]) :
          CallUpdateEffect(d, FrameUpdate(frames[1], d[1], d[2], thread_rng,
                                          overflow_checks))
    /\ UNCHANGED <<screen_width, screen_height, term, pc, out, queries,
                   overflow_checks>>

\* what frame.get_content(x, y) leaves, g its outcome
CallGetContentEffect(g) ==
    /\ frames' = <<g.self>>
    /\ thread_rng' = g.rng
    /\ panic' = g.panic
    /\ ret' = [kind |-> "get_content", content |-> g.content]

\* frame.get_content(x, y), at a cell of the size of the last update
CallGetContent ==
    /\ pc = "test"
    /\ Len(frames) = 1
    /\ panic = NoPanic
    /\ Len(input) = 2
    /\ \E x \in 0 .. input[1] - 1, y \in 0 .. input[2] - 1 :
          CallGetContentEffect(FrameGetContent(frames[1], x, y, thread_rng,
                                               overflow_checks))
    /\ UNCHANGED <<screen_width, screen_height, term, pc, out, queries,
                   overflow_checks, input>>

NextFrames ==
    \/ CallUpdate
    \/ CallGetContent

SpecFrames == InitFrames /\ [][NextFrames]_vars

-----------------------------------------------------------------------------
(* The Printer over two frames of fixed content, in a terminal of a fixed  *)
(* size: the front frame draws 'X's and U+8056, the back frame 'Y's and    *)
(* U+6A02, each with any mix of Transparent and Compensate                 *)

FrontCells ==
    {Transparent, Compensate, ColoredString(<<88>>, "Red"),
     ColoredString(<<32854>>, "Red")}

BackCells ==
    {Transparent, Compensate, ColoredString(<<89>>, "White"),
     ColoredString(<<27138>>, "White")}

GridHeights == {1, 2}

InitGrid ==
    /\ \E w \in 1 .. MaxGridW, h \in GridHeights :
          /\ term = <<w, h>>
          /\ frames \in {<<GridFrame(a), GridFrame(b)>> :
                            a \in [1 .. w -> FrontCells],
                            b \in [1 .. w -> BackCells]}
    /\ screen_width = 0
    /\ screen_height = 0
    /\ pc = "update"
    /\ out = <<>>
    /\ queries = <<>>
    /\ panic = NoPanic
    /\ thread_rng = [stream |-> <<0>>, pos |-> 0]
    /\ overflow_checks = TRUE
    /\ input = <<>>
    /\ ret = None

NextGrid ==
    \/ PrinterUpdate
    \/ PrinterClear
    \/ PrinterPrint
    \/ Sleep

SpecGrid == InitGrid /\ [][NextGrid]_vars

-----------------------------------------------------------------------------
(* Claims about string_to_content_vec (SpecVec) *)

IsGlyph(content) == content.kind = "ColoredString"

IsWideGlyph(content) == IsGlyph(content) /\ ContentWidth(content) = 2

\* C10: in the sequence string_to_content_vec returns, a Compensate stands at
\* index i iff the entry at i - 1 is a glyph of display width 2, and every
\* glyph of width 2 is followed by one (so there is exactly one per wide glyph,
\* none at the front, none after a Compensate or a glyph of width 1).
C10_ContentSequence ==
    ret.kind = "Vec" =>
        /\ \A i \in 1 .. Len(ret.vec) :
              (ret.vec[i] = Compensate) <=> (i > 1 /\ IsWideGlyph(ret.vec[i - 1]))
        /\ \A i \in 1 .. Len(ret.vec) :
              IsWideGlyph(ret.vec[i]) =>
                  (i < Len(ret.vec) /\ ret.vec[i + 1] = Compensate)
        /\ Cardinality({i \in 1 .. Len(ret.vec) : ret.vec[i] = Compensate})
              = Cardinality({i \in 1 .. Len(ret.vec) : IsWideGlyph(ret.vec[i])})

\* a string with a character of each width has been converted
C10_Witness ==
    /\ ret.kind = "Vec"
    /\ \E i, j \in 1 .. Len(ret.vec) :
          /\ ret.vec[i] = Compensate
          /\ IsGlyph(ret.vec[j]) /\ ContentWidth(ret.vec[j]) = 1

-----------------------------------------------------------------------------
(* Claims about one frame (SpecFrames) *)

FrameUnderTest == frames[1]

\* the columns of logical row y at which the snow frame answers a glyph
SnowActive(self, y) ==
    {x \in 0 .. self.frame_width - 1 :
        IsGlyph(SnowGetContent(self, x, y, thread_rng, overflow_checks).content)}

\* the last call was SnowFrame::update(input[1], input[2])
AfterSnowUpdate ==
    /\ pc = "test"
    /\ ret.kind = "update"
    /\ FrameUnderTest.kind = "SnowFrame"

\* the last update was called with other dimensions than the frame had
Resized ==
    ret.before.frame_width /= input[1] \/ ret.before.frame_height /= input[2]

\* C3: update(w, h) does not crash, whatever the dimensions and whatever the
\* dimensions of the call before, and after it get_content(x, y) does not
\* crash for any 0 <= x < w, 0 <= y < h.  The code violates it.
C3_UpdateAndGetContentNeverCrash ==
    (pc = "test" /\ ret.kind = "update") =>
        /\ panic = NoPanic
        /\ \A x \in 0 .. input[1] - 1, y \in 0 .. input[2] - 1 :
              FrameGetContent(FrameUnderTest, x, y, thread_rng,
                              overflow_checks).panic = NoPanic

\* C4: an update of the snow frame with unchanged dimensions moves the active
\* columns of every logical row k (k + 1 < h) to logical row k + 1.
C4_ScrollContinuity ==
    (AfterSnowUpdate /\ ~Resized /\ panic = NoPanic) =>
        \A k \in 0 .. input[2] - 2 :
            SnowActive(ret.before, k) = SnowActive(FrameUnderTest, k + 1)

\* an update has scrolled a snowflake from logical row 0 down to row 1
C4_Witness ==
    /\ AfterSnowUpdate /\ ~Resized /\ panic = NoPanic
    /\ input[2] >= 3
    /\ FrameUnderTest.cursor /= ret.before.cursor
    /\ SnowActive(ret.before, 0) /= {}
    /\ SnowActive(FrameUnderTest, 1) /= SnowActive(FrameUnderTest, 0)

\* C5: an update of the snow frame with other dimensions than the call before
\* leaves cursor = 0, exactly h stored rows and no active column in any logical
\* row y >= 1; logical row 0 holds columns below w only.
C5_ResizeReset ==
    (AfterSnowUpdate /\ Resized) =>
        /\ FrameUnderTest.cursor = 0
        /\ FrameUnderTest.frame_width = input[1]
        /\ FrameUnderTest.frame_height = input[2]
        /\ Len(FrameUnderTest.snows_row) = input[2]
        /\ \A i \in 2 .. Len(FrameUnderTest.snows_row) :
              FrameUnderTest.snows_row[i] = {}
        /\ \A y \in 1 .. input[2] - 1 : SnowActive(FrameUnderTest, y) = {}
        /\ \A i \in 1 .. Len(FrameUnderTest.snows_row) :
              FrameUnderTest.snows_row[i] \subseteq 0 .. input[1] - 1

\* a frame with snow below its top row has been resized to another size of
\* two rows or more
C5_Witness ==
    /\ AfterSnowUpdate /\ Resized /\ panic = NoPanic
    /\ input[2] >= 2
    /\ ret.before.frame_height >= 2
    /\ \E y \in 1 .. ret.before.frame_height - 1 : SnowActive(ret.before, y) /= {}
    /\ SnowActive(FrameUnderTest, 0) /= {}

\* the position of the generator k draws before the position pos
PosBefore(pos, k) == (pos + k * RngPeriod - k) % RngPeriod

\* the columns i of 0 .. w - 1 for which draw i of the last w draws of the
\* generator, gen_range(0..=20), was 0
Drawn(rng, w) ==
    {i \in 0 .. w - 1 :
        (rng.stream[((PosBefore(rng.pos, w) + i) % RngPeriod) + 1] % 21) = 0}

\* the stored row at the cursor
SnowTopRow(self) == self.snows_row[self.cursor + 1]

\* the stored row that an update with unchanged dimensions recycles: the one
\* behind the bottom logical row h - 1
SnowRecycledRow(self) ==
    self.snows_row[((self.cursor + self.frame_height - 1) % self.frame_height) + 1]

C18_SnowRingBuffer ==
    (pc = "test" /\ ret.kind \in {"update", "get_content"}
     /\ FrameUnderTest.kind = "SnowFrame" /\ panic = NoPanic) =>
        /\ input[2] >= 1
        /\ 0 <= FrameUnderTest.cursor
        /\ FrameUnderTest.cursor < FrameUnderTest.frame_height
        /\ Len(FrameUnderTest.snows_row) = FrameUnderTest.frame_height
        /\ FrameUnderTest.frame_width = input[1]
        /\ FrameUnderTest.frame_height = input[2]
        /\ \A i \in 1 .. Len(FrameUnderTest.snows_row) :
              FrameUnderTest.snows_row[i] \subseteq
                  0 .. FrameUnderTest.frame_width - 1

\* the cursor has gone round to the last stored row of a frame of the largest
\* size, which was resized before, and a snowflake stands in the last column
C18_Witness ==
    /\ AfterSnowUpdate /\ ~Resized /\ panic = NoPanic
    /\ input = <<MaxSnowW, MaxSnowH>>
    /\ FrameUnderTest.cursor = FrameUnderTest.frame_height - 1
    /\ \E i \in 1 .. Len(FrameUnderTest.snows_row) :
          MaxSnowW - 1 \in FrameUnderTest.snows_row[i]

\* get_content(x, y) called again on what the call g1 left
SecondCall(x, y, g1) ==
    FrameGetContent(g1.self, x, y, g1.rng, overflow_checks)

\* the cells get_content may be asked after the last update
CellsInRange == (0 .. input[1] - 1) \X (0 .. input[2] - 1)

\* a frame has been updated and is there to be asked
Answerable == pc = "test" /\ Len(input) = 2 /\ panic = NoPanic

SameAnswer(g1, g2) ==
    (g1.panic = NoPanic /\ g2.panic = NoPanic) => g1.content = g2.content

\* C8 as stated: two calls get_content(x, y) with no update in between return
\* the same Content.  The leaves of the tree refute it.
C8_SameContentTwice ==
    Answerable =>
        \A c \in CellsInRange :
            SameAnswer(FrameGetContent(FrameUnderTest, c[1], c[2], thread_rng,
                                       overflow_checks),
                       SecondCall(c[1], c[2],
                                  FrameGetContent(FrameUnderTest, c[1], c[2],
                                                  thread_rng, overflow_checks)))

\* the texts of a leaf: "*" and "o"
LeafTexts == {<<42>>, <<111>>}

\* the same answer, or two leaves of the tree
SameButLeaves(self, g1, g2) ==
    (g1.panic = NoPanic /\ g2.panic = NoPanic) =>
        /\ g1.self = self
        /\ g2.self = self
        /\ g1.content.kind = g2.content.kind
        /\ (g1.content /= g2.content =>
               /\ self.kind = "ChristmasTreeFrame"
               /\ IsGlyph(g1.content) /\ IsGlyph(g2.content)
               /\ g1.content.s \in LeafTexts /\ g2.content.s \in LeafTexts
               /\ ContentWidth(g1.content) = 1 /\ ContentWidth(g2.content) = 1)

\* C8, amended: two calls get_content(x, y) with no update in between leave the
\* frame's fields alone and return the same kind of Content; the Content is the
\* same but in the leaf band of the tree, where each call draws anew one of the
\* glyphs "*" and "o" (both of width 1) and its colour.
C8_SameContentButLeaves ==
    Answerable =>
        \A c \in CellsInRange :
            SameButLeaves(FrameUnderTest,
                          FrameGetContent(FrameUnderTest, c[1], c[2], thread_rng,
                                          overflow_checks),
                          SecondCall(c[1], c[2],
                                     FrameGetContent(FrameUnderTest, c[1], c[2],
                                                     thread_rng, overflow_checks)))

\* a leaf has been asked for, and so has a snowflake
C8_Witness ==
    /\ Answerable
    /\ ret.kind = "get_content"
    /\ IsGlyph(ret.content)
    /\ FrameUnderTest.kind = "ChristmasTreeFrame"
    /\ ret.content.s = <<111>>
    /\ \E c \in CellsInRange :
          IsGlyph(FrameGetContent(FrameUnderTest, c[1], c[2], thread_rng,
                                  overflow_checks).content)

-----------------------------------------------------------------------------
(* Claims about Printer::print (SpecGrid, Spec) *)

\* print! has written the rows of this tick
Printed == pc = "sleep" /\ panic = NoPanic

\* what frame i reports at (x, y)
Answer(i, x, y) ==
    FrameGetContent(frames[i], x, y, thread_rng, overflow_checks).content

\* the display width of a row: the widths of its pieces
RECURSIVE RowWidth(_)
RowWidth(row) ==
    IF row = <<>> THEN 0 ELSE StringWidth(Head(row).s) + RowWidth(Tail(row))

\* the display column at which piece k of a row starts
ColumnOf(row, k) == RowWidth(SubSeq(row, 1, k - 1))

\* the second column of a glyph of width 2
Covered == [s |-> <<>>, color |-> "covered"]

\* what the terminal shows at display column x of a row: the piece that starts
\* there, or Covered
Rendered(row, x) ==
    IF \E k \in 1 .. Len(row) : ColumnOf(row, k) = x
    THEN row[CHOOSE k \in 1 .. Len(row) : ColumnOf(row, k) = x]
    ELSE Covered

\* column x lies under a glyph that starts to its left and is wider than one
\* column (for a glyph of width 2: one that starts at x - 1)
Consumed(row, x) ==
    \E k \in 1 .. Len(row) :
        /\ ColumnOf(row, k) < x
        /\ x < ColumnOf(row, k) + StringWidth(row[k].s)

Columns == 0 .. screen_width - 1
Rows == 0 .. screen_height - 1

\* C1 as stated: wherever the front frame reports a glyph, the rendered cell is
\* that glyph.  A glyph of width 2 emitted one column to the left refutes it.
C1_FrontGlyphRendered ==
    Printed =>
        \A x \in Columns, y \in Rows :
            IsGlyph(Answer(1, x, y)) =>
                Rendered(out[y + 1], x) = Piece(Answer(1, x, y))

\* C1, amended: wherever the front frame reports a glyph, the rendered cell is
\* that glyph, whatever the frames behind report, unless the column lies under
\* a glyph of width 2 emitted one column to its left (the scan skips it).
C1_FrontGlyphRenderedUnlessConsumed ==
    Printed =>
        \A x \in Columns, y \in Rows :
            IsGlyph(Answer(1, x, y)) =>
                \/ Rendered(out[y + 1], x) = Piece(Answer(1, x, y))
                \/ Consumed(out[y + 1], x)

\* the front glyph is shown at a column where the back frame reports a glyph
\* too, next to a column where the back glyph shows through
C1_Witness ==
    /\ Printed
    /\ Len(frames) = 2
    /\ \E x \in Columns, x2 \in Columns :
          /\ IsGlyph(Answer(1, x, 0)) /\ IsGlyph(Answer(2, x, 0))
          /\ Rendered(out[1], x) = Piece(Answer(1, x, 0))
          /\ Answer(1, x2, 0) = Transparent /\ IsGlyph(Answer(2, x2, 0))
          /\ Rendered(out[1], x2) = Piece(Answer(2, x2, 0))

\* row y holds one glyph of width 2, at column c of frame i, and Transparent at
\* every other column of every frame
OneWideGlyph(i, c, y) ==
    /\ IsWideGlyph(Answer(i, c, y))
    /\ \A j \in 1 .. Len(frames), x \in Columns :
          <<j, x>> /= <<i, c>> => Answer(j, x, y) = Transparent

\* C2: a row with one glyph of width 2 at any column c < w, and Transparent
\* elsewhere, is printed with display width exactly w.  The code violates it
\* at c = w - 1.
C2_RowWidthIsScreenWidth ==
    Printed =>
        \A y \in Rows, c \in Columns, i \in 1 .. Len(frames) :
            OneWideGlyph(i, c, y) => RowWidth(out[y + 1]) = screen_width

\* C6 as stated: wherever every frame reports Transparent, the rendered cell is
\* a single blank.  The second column of a glyph of width 2 refutes it.
C6_AllTransparentIsBlank ==
    Printed =>
        \A x \in Columns, y \in Rows :
            (\A i \in 1 .. Len(frames) : Answer(i, x, y) = Transparent) =>
                Rendered(out[y + 1], x) = Space

\* C6, amended: wherever every frame reports Transparent, the rendered cell is
\* a single blank, unless the column lies under a glyph of width 2 emitted one
\* column to its left (no blank is pushed for it).
C6_AllTransparentIsBlankUnlessConsumed ==
    Printed =>
        \A x \in Columns, y \in Rows :
            (\A i \in 1 .. Len(frames) : Answer(i, x, y) = Transparent) =>
                \/ Rendered(out[y + 1], x) = Space
                \/ Consumed(out[y + 1], x)

\* a blank is shown to the right of a glyph, where every frame is transparent
C6_Witness ==
    /\ Printed
    /\ \E x \in Columns :
          /\ x > 0
          /\ \A i \in 1 .. Len(frames) : Answer(i, x, 0) = Transparent
          /\ Rendered(out[1], x) = Space
          /\ Rendered(out[1], x - 1) \notin {Space, Covered}

\* the frames that report a glyph at (x, y)
GlyphFrames(x, y) == {i \in 1 .. Len(frames) : IsGlyph(Answer(i, x, y))}

\* the least element of a set of numbers
Least(S) == CHOOSE i \in S : \A j \in S : i <= j

\* the piece a cell resolves to when Compensate is read as Transparent
Resolved(x, y) ==
    IF GlyphFrames(x, y) = {} THEN Space
    ELSE Piece(Answer(Least(GlyphFrames(x, y)), x, y))

\* a frame with every Compensate of its line replaced by Transparent
WithoutCompensate(frame) ==
    IF frame.kind = "GridFrame"
    THEN [frame EXCEPT !.line = [k \in 1 .. Len(frame.line) |->
                                    IF frame.line[k] = Compensate
                                    THEN Transparent ELSE frame.line[k]]]
    ELSE frame

\* C7: a Compensate answered to the scan does not block the frames behind: at
\* every scanned cell the first glyph of the stack is emitted, or one blank if
\* no frame has a glyph there, the scan then moving on by one column; the rows
\* are those printed with every Compensate replaced by Transparent.
C7_CompensateIsNotOpaque ==
    Printed =>
        /\ \A y \in Rows : \A k \in 1 .. Len(queries[y + 1]) :
              /\ Rendered(out[y + 1], queries[y + 1][k].x)
                    = Resolved(queries[y + 1][k].x, y)
              /\ (GlyphFrames(queries[y + 1][k].x, y) = {}
                  /\ k < Len(queries[y + 1])) =>
                     queries[y + 1][k + 1].x = queries[y + 1][k].x + 1
        /\ out = PrintResult([i \in 1 .. Len(frames) |-> WithoutCompensate(frames[i])],
                             screen_width, screen_height, thread_rng,
                             overflow_checks).rows

\* the scan has asked a cell where the front frame answers Compensate and the
\* back frame a glyph, and one where the only answers are Compensate
C7_Witness ==
    /\ Printed
    /\ Len(frames) = 2
    /\ \E k, l \in 1 .. Len(queries[1]) :
          /\ Answer(1, queries[1][k].x, 0) = Compensate
          /\ IsGlyph(Answer(2, queries[1][k].x, 0))
          /\ Rendered(out[1], queries[1][k].x) = Piece(Answer(2, queries[1][k].x, 0))
          /\ Answer(1, queries[1][l].x, 0) = Compensate
          /\ Answer(2, queries[1][l].x, 0) = Compensate
          /\ Rendered(out[1], queries[1][l].x) = Space

\* the display width of what the scan resolves at (x, y)
ResolvedWidth(x, y) == StringWidth(Resolved(x, y).s)

\* the columns at which the scan of row y has queried the frames
Queried(y) == {queries[y + 1][k].x : k \in 1 .. Len(queries[y + 1])}

\* entry k of a scan, at column x, is followed by a query at x + d and by no
\* other, or ends the scan when x + d is past the last column
SkipsAhead(scan, k, x, d) ==
    IF x + d < screen_width
    THEN k < Len(scan) /\ scan[k + 1].x = x + d
    ELSE k = Len(scan)

\* C11: in the scan of a row, when the content resolved at column x is a glyph
\* of display width d, the next column queried is x + d (if x + d < width): no
\* frame is queried at x + 1 after a glyph of width 2, and the next column
\* queried after a blank or a glyph of width 1 is x + 1.  The scan starts at 0.
C11_GlyphSkipAhead ==
    Printed =>
        \A y \in Rows :
            /\ queries[y + 1] /= <<>> => queries[y + 1][1].x = 0
            /\ \A k \in 1 .. Len(queries[y + 1]) :
                  /\ SkipsAhead(queries[y + 1], k, queries[y + 1][k].x,
                                ResolvedWidth(queries[y + 1][k].x, y))
                  /\ ResolvedWidth(queries[y + 1][k].x, y) = 2 =>
                         queries[y + 1][k].x + 1 \notin Queried(y)

\* the scan of the top row has gone from a glyph of width 2 at x to x + 2
\* without a query at x + 1, and the scan of the row below from a blank at x
\* to x + 1
C11_Witness ==
    /\ Printed
    /\ screen_height = 2
    /\ \E k \in 1 .. Len(queries[1]) - 1 :
          /\ ResolvedWidth(queries[1][k].x, 0) = 2
          /\ queries[1][k + 1].x = queries[1][k].x + 2
          /\ queries[1][k].x + 1 \notin Queried(0)
    /\ \E k \in 1 .. Len(queries[2]) - 1 :
          /\ Resolved(queries[2][k].x, 1) = Space
          /\ queries[2][k + 1].x = queries[2][k].x + 1

\* C12: every get_content(x, y) that Printer::print issues has
\* 0 <= x < screen_width and 0 <= y < screen_height, whatever the size of the
\* grid and the mix of glyphs of width 1 and 2; it goes to a frame of the list.
C12_QueriesInBounds ==
    Printed =>
        /\ Len(queries) = screen_height
        /\ \A y \in 1 .. Len(queries) :
              /\ y - 1 \in Rows
              /\ \A k \in 1 .. Len(queries[y]) :
                    /\ queries[y][k].x \in Columns
                    /\ queries[y][k].asked \in 1 .. Len(frames)

\* the scan of a row has emitted a glyph of width 1 and then queried the last
\* column, where a glyph of width 2 stands
C12_Witness ==
    /\ Printed
    /\ \E k, j \in 1 .. Len(queries[1]) :
          /\ queries[1][k].x = screen_width - 1
          /\ ResolvedWidth(queries[1][k].x, 0) = 2
          /\ j < k
          /\ Resolved(queries[1][j].x, 0) /= Space
          /\ ResolvedWidth(queries[1][j].x, 0) = 1

\* C9: Printer::print leaves screen_width, screen_height, the list of frames
\* and every field of every frame as they were.
C9_PrintMutatesNoFrame ==
    [][pc = "print" =>
          /\ screen_width' = screen_width
          /\ screen_height' = screen_height
          /\ frames' = frames]_vars

\* a tick has printed the tree, its caption and a snowflake
C9_Witness ==
    /\ Printed
    /\ screen_height >= HEIGHT
    /\ frames[2].kind = "SnowFrame"
    /\ \E y \in 1 .. Len(out) :
          /\ \E k \in 1 .. Len(out[y]) : out[y][k] = [s |-> <<111>>, color |-> "White"]
          /\ \E k \in 1 .. Len(out[y]) : out[y][k] = [s |-> <<42>>, color |-> "Green"]
    /\ \E k \in 1 .. Len(out[Len(out)]) :
          out[Len(out)][k] = [s |-> <<27138>>, color |-> "Red"]

-----------------------------------------------------------------------------
(* Claims about the loop of main (Spec) *)

\* the calls of one iteration, each with the call that follows it
TickOrder ==
    {<<"update", "clear">>, <<"clear", "print">>, <<"print", "sleep">>,
     <<"sleep", "update">>}

\* a frame that update has been called on: it has taken a size
Updated(frame) == frame.frame_width /= 0 \/ frame.frame_height /= 0

\* the cursor of the snow frame after one update to (w, h)
CursorAfterOneUpdate(before, w, h) ==
    IF before.frame_width = w /\ before.frame_height = h
    THEN (before.cursor + h - 1) % h
    ELSE 0

\* C13: every iteration of main's loop performs Printer::update, then the
\* clear, then Printer::print, then the sleep, in that order and once each:
\* the position of the loop changes along that cycle alone; the step from
\* update reads the size and moves the snow by one update; print starts on a
\* cleared terminal, queries only frames that were updated, and writes its
\* screen_height rows once.
C13_TickOrdering ==
    [][/\ pc' /= pc => <<pc, pc'>> \in TickOrder
       /\ (pc = "update" /\ pc' = "clear") =>
              /\ <<screen_width', screen_height'>> = term
              /\ frames'[2].cursor
                    = CursorAfterOneUpdate(frames[2], term[1], term[2])
       /\ pc' = "print" => out' = <<>>
       /\ (pc = "print" /\ queries' /= queries) =>
              \A i \in 1 .. Len(frames) : Updated(frames[i])
       /\ (pc = "print" /\ pc' = "sleep") =>
              /\ Len(out') = screen_height
              /\ Len(queries') = screen_height]_vars

\* the loop is in its second iteration at one size, or a later one: the snow
\* has been moved and the rows have been printed
C13_Witness ==
    /\ Printed
    /\ out /= <<>>
    /\ frames[2].kind = "SnowFrame"
    /\ frames[2].cursor /= 0
    /\ <<screen_width, screen_height>> = term

\* the size a frame has cached
FrameSize(frame) == <<frame.frame_width, frame.frame_height>>

\* C15: Printer::update obtains one pair (width, height) and calls
\* update(width, height) with that pair once on every frame it owns: the step
\* leaves the pair in screen_width and screen_height and in every frame, the
\* snow moved by one update; hence, after any number of iterations and
\* resizes, every frame's frame_width and frame_height are the Printer's
\* screen_width and screen_height whenever print runs.
C15_DimensionForwarding ==
    [][/\ (pc = "update" /\ pc' = "clear") =>
              /\ <<screen_width', screen_height'>> = term
              /\ \A i \in 1 .. Len(frames') : FrameSize(frames'[i]) = term
              /\ Len(frames') = Len(frames)
              /\ frames'[2].cursor
                    = CursorAfterOneUpdate(frames[2], term[1], term[2])
       /\ pc' \in {"clear", "print", "sleep"} =>
              \A i \in 1 .. Len(frames') :
                  FrameSize(frames'[i]) = <<screen_width', screen_height'>>]_vars

\* print is about to run in a window that has been resized since the last
\* print, the frames holding the new size
C15_Witness ==
    /\ pc = "print"
    /\ panic = NoPanic
    /\ queries /= <<>>
    /\ Len(queries) /= screen_height
    /\ \A i \in 1 .. Len(frames) :
          FrameSize(frames[i]) = <<screen_width, screen_height>>
    /\ Len(frames[2].snows_row) = screen_height

\* C17: when the terminal-size query answers no dimensions, Printer::update
\* panics before it changes screen_width or screen_height and before it calls
\* update on any frame; no size is substituted, and nothing follows the
\* panic: no clear, no print, no further iteration.
C17_NoSizeIsFatal ==
    [][/\ (pc = "update" /\ term = NoSize) =>
              /\ panic' = UnwrapNone
              /\ pc' = "update"
              /\ UNCHANGED <<screen_width, screen_height, frames, thread_rng,
                             out, queries>>
       /\ panic /= UnwrapNone]_vars

\* the size became unavailable after a tick that printed: update has
\* panicked, the Printer and the frames holding the size of that tick
C17_Witness ==
    /\ panic = UnwrapNone
    /\ term = NoSize
    /\ pc = "update"
    /\ <<screen_width, screen_height>> \in TermSizes
    /\ \A i \in 1 .. Len(frames) :
          FrameSize(frames[i]) = <<screen_width, screen_height>>
    /\ out /= <<>>

-----------------------------------------------------------------------------
(* Claims about the shipped stack: the tree in front of the snow (Spec) *)

\* the window has room for the tree and its caption
ShippedSize == screen_width >= 19 /\ screen_height >= HEIGHT

\* the columns of row y at which the tree answers Compensate
TreeCompensates(y) == {x \in Columns : Answer(1, x, y) = Compensate}

\* C16: with the tree in front of the snow and a grid of at least 19 columns
\* and 14 rows, the scan of Printer::print issues no get_content at a cell
\* where the tree answers Compensate: every such column is the second column
\* of the glyph of width 2 emitted one column to its left, which the scan
\* queried and skipped from.
C16_CompensateNeverQueried ==
    (Printed /\ ShippedSize) =>
        \A y \in Rows :
            /\ TreeCompensates(y) \cap Queried(y) = {}
            /\ \A x \in TreeCompensates(y) :
                  /\ x - 1 \in Queried(y)
                  /\ StringWidth(Rendered(out[y + 1], x - 1).s) = 2
                  /\ Rendered(out[y + 1], x) = Covered

\* the caption has been printed in a row that holds a snowflake too, the
\* second column of each of its four wide characters not queried
C16_Witness ==
    /\ Printed /\ ShippedSize
    /\ frames[1].kind = "ChristmasTreeFrame"
    /\ \E y \in Rows :
          /\ Cardinality(TreeCompensates(y)) = 4
          /\ TreeCompensates(y) \cap Queried(y) = {}
          /\ \E k \in 1 .. Len(out[y + 1]) :
                out[y + 1][k] = [s |-> <<111>>, color |-> "White"]

\* C19: with the tree in front of the snow and a grid of w >= 19 columns and
\* h >= 14 rows, Printer::print produces exactly h rows, every one of display
\* width exactly w (the widths of its glyphs and its blanks), the caption row
\* with its characters of width 2 included.
C19_ExactRowWidth ==
    (Printed /\ ShippedSize) =>
        /\ Len(out) = screen_height
        /\ \A y \in 1 .. Len(out) : RowWidth(out[y]) = screen_width

\* the rows of a window of 20 columns and 15 rows have been printed, the
\* caption row in w - 4 pieces: its four wide characters take two columns each
C19_Witness ==
    /\ Printed
    /\ <<screen_width, screen_height>> = <<20, 15>>
    /\ Len(out) = 15
    /\ \E y \in 1 .. Len(out) :
          /\ Len(out[y]) = screen_width - 4
          /\ RowWidth(out[y]) = screen_width
          /\ Cardinality({k \in 1 .. Len(out[y]) :
                             StringWidth(out[y][k].s) = 2}) = 4

====
